---- MODULE Spec2Model ----
(***************************************************************************)
(* Model of dipole-antennas.py: the numeric core (wavelength_m,            *)
(* current_distribution, lengths) and the widget callbacks around it       *)
(* (update, submit_freq, reset, the initial render).                       *)
(*                                                                         *)
(* Python floats are modelled as exact rationals over arbitrary-size       *)
(* naturals, together with the special values nan and +/-inf and with the  *)
(* range of an IEEE double: a result at or above 2^1024 - 2^970 becomes    *)
(* inf, a result at or below 2^-1075 becomes 0 (both thresholds taken to   *)
(* 32 significant decimal digits).  The rounding of the 53-bit mantissa is *)
(* not modelled.  sin(2*pi*t) is kept exact: its value is a sign and the   *)
(* first-quadrant angle (in turns) that has the same sine, so values are   *)
(* compared by comparing angles.                                           *)
(*                                                                         *)
(* Intermediate values are passed to helper operators as arguments.        *)
(***************************************************************************)
EXTENDS Integers, Sequences, FiniteSets, TLC

VARIABLES
    pc,          \* "start" before line 122 has run, "idle" inside plt.show()
    tb_text,     \* tb_freq.text, a sequence of characters
    s_vf,        \* s_vf.val
    s_mult,      \* s_mult.val
    ydata,       \* the y data of `line`
    status,      \* the values status.set_text last formatted (<<>> for "")
    err,         \* the exception the last handler ended with, or "none"
    last_event,  \* history: the handler that ran last and what it was given
    last_valid,  \* history: the last frequency that was accepted from the text
    cd_x,        \* current_distribution alone: the positions
    cd_L,        \*   the electrical length
    cd_I,        \*   the result
    cd_pc,       \*   "call" before the call, "ret" after it
    ln_in,       \* lengths alone: <<freq_mhz, vf, mult>>
    ln_out,      \*   the result
    ln_pc        \*   "call" before the call, "ret" after it

vars == <<pc, tb_text, s_vf, s_mult, ydata, status, err, last_event, last_valid,
          cd_x, cd_L, cd_I, cd_pc, ln_in, ln_out, ln_pc>>

uiVars == <<pc, tb_text, s_vf, s_mult, ydata, status, err, last_event, last_valid>>
cdVars == <<cd_x, cd_L, cd_I, cd_pc>>
lnVars == <<ln_in, ln_out, ln_pc>>

-----------------------------------------------------------------------------
(* Naturals of any size: little-endian sequences of base-10000 limbs, with  *)
(* no zero limb at the top; <<>> is 0.                                      *)

RECURSIVE BigTrim(_)
BigTrim(a) ==
    IF a = <<>> THEN a
    ELSE IF a[Len(a)] = 0 THEN BigTrim(SubSeq(a, 1, Len(a) - 1)) ELSE a

RECURSIVE BigOfInt(_)
BigOfInt(i) == IF i = 0 THEN <<>> ELSE <<i % 10000>> \o BigOfInt(i \div 10000)

BigRest(a) == IF a = <<>> THEN <<>> ELSE Tail(a)
BigLow(a) == IF a = <<>> THEN 0 ELSE a[1]

\* a + b + c, by limbs: t is the sum of the low limbs and the carry
RECURSIVE BigAddC(_, _, _)
RECURSIVE BigAddLimb(_, _, _)
BigAddLimb(a, b, t) == <<t % 10000>> \o BigAddC(BigRest(a), BigRest(b), t \div 10000)
BigAddC(a, b, c) ==
    IF a = <<>> /\ b = <<>> THEN (IF c = 0 THEN <<>> ELSE <<c>>)
    ELSE BigAddLimb(a, b, BigLow(a) + BigLow(b) + c)

BigAdd(a, b) == BigAddC(a, b, 0)

\* a - b - br for a >= b + br, by limbs: t is the difference of the low limbs
RECURSIVE BigSubB(_, _, _)
RECURSIVE BigSubLimb(_, _, _)
BigSubLimb(a, b, t) ==
    IF t < 0 THEN <<t + 10000>> \o BigSubB(Tail(a), BigRest(b), 1)
    ELSE <<t>> \o BigSubB(Tail(a), BigRest(b), 0)
BigSubB(a, b, br) ==
    IF a = <<>> THEN <<>> ELSE BigSubLimb(a, b, a[1] - BigLow(b) - br)

BigSub(a, b) == BigTrim(BigSubB(a, b, 0))

\* The highest limb in which a and b (of one length, a # b) differ.
BigTopDiff(a, b) ==
    CHOOSE i \in 1..Len(a) : a[i] # b[i] /\ \A j \in (i + 1)..Len(a) : a[j] = b[j]

\* -1, 0 or 1 as a < b, a = b or a > b
BigCmp(a, b) ==
    IF Len(a) # Len(b) THEN (IF Len(a) < Len(b) THEN -1 ELSE 1)
    ELSE IF a = b THEN 0
    ELSE IF a[BigTopDiff(a, b)] < b[BigTopDiff(a, b)] THEN -1 ELSE 1

\* a * k + c for a limb k, by limbs: p is the product of the low limb, and c
RECURSIVE BigMulLimb(_, _, _)
RECURSIVE BigMulCarry(_, _, _)
BigMulCarry(a, k, p) == <<p % 10000>> \o BigMulLimb(Tail(a), k, p \div 10000)
BigMulLimb(a, k, c) ==
    IF a = <<>> THEN (IF c = 0 THEN <<>> ELSE <<c>>)
    ELSE BigMulCarry(a, k, a[1] * k + c)

\* a moved up by one limb
BigShift(a) == IF a = <<>> THEN <<>> ELSE <<0>> \o a

RECURSIVE BigMul(_, _)
BigMul(a, b) ==
    IF a = <<>> \/ b = <<>> THEN <<>>
    ELSE BigAdd(IF b[1] = 0 THEN <<>> ELSE BigMulLimb(a, b[1], 0),
                BigShift(BigMul(a, Tail(b))))

\* 10^e
BigPow10(e) ==
    [i \in 1..(e \div 4) |-> 0]
        \o <<CASE e % 4 = 0 -> 1 [] e % 4 = 1 -> 10 [] e % 4 = 2 -> 100 [] OTHER -> 1000>>

\* a * 10^e
BigMulPow10(a, e) ==
    IF a = <<>> THEN <<>>
    ELSE [i \in 1..(e \div 4) |-> 0] \o BigMulLimb(a, BigPow10(e % 4)[1], 0)

-----------------------------------------------------------------------------
(* Floats.  k is "fin", "inf", "nan", "zde" for the ZeroDivisionError that  *)
(* a division by zero raises, or "verr" for the ValueError of a failed      *)
(* parse; s is the sign; a finite magnitude is (n / d) * 10^e.  e is 0      *)
(* except for magnitudes far from 1, whose powers of ten are kept as an     *)
(* exponent instead of as limbs.                                            *)

FNaN == [k |-> "nan", s |-> 0, n |-> <<>>, d |-> <<1>>, e |-> 0]
FInf(sg) == [k |-> "inf", s |-> sg, n |-> <<>>, d |-> <<1>>, e |-> 0]
FZde == [k |-> "zde", s |-> 0, n |-> <<>>, d |-> <<1>>, e |-> 0]
FValueError == [k |-> "verr", s |-> 0, n |-> <<>>, d |-> <<1>>, e |-> 0]
FZero == [k |-> "fin", s |-> 0, n |-> <<>>, d |-> <<1>>, e |-> 0]
FFin(sg, n, d, ex) == [k |-> "fin", s |-> sg, n |-> n, d |-> d, e |-> ex]

\* n / d lies strictly between 10^MagLo and 10^MagHi.
MagLo(n, d, ex) == 4 * (Len(n) - Len(d) - 1) + ex
MagHi(n, d, ex) == 4 * (Len(n) - Len(d) + 1) + ex

\* -1, 0, 1 as (n1/d1)*10^e1 is below, equal to or above (n2/d2)*10^e2, for
\* n1, n2 # 0.
MagCmp(n1, d1, e1, n2, d2, e2) ==
    IF MagLo(n1, d1, e1) >= MagHi(n2, d2, e2) THEN 1
    ELSE IF MagHi(n1, d1, e1) <= MagLo(n2, d2, e2) THEN -1
    ELSE IF e1 >= e2 THEN BigCmp(BigMulPow10(BigMul(n1, d2), e1 - e2), BigMul(n2, d1))
    ELSE BigCmp(BigMul(n1, d2), BigMulPow10(BigMul(n2, d1), e2 - e1))

\* 2^1024 - 2^970 = DoubleOverflow * 10^277 and 2^-1075 =
\* DoubleUnderflow * 10^-355, both cut after 32 digits: the least magnitude
\* that rounds to inf and the greatest that rounds to 0.
DoubleOverflow == <<530, 9714, 3728, 8079, 2315, 3486, 6931, 1797>>
DoubleUnderflow == <<3411, 3964, 8284, 7208, 6232, 2920, 3282, 2470>>

\* sg * (n / d) * 10^ex brought into the range of a double (d # 0).
FRound(sg, n, d, ex) ==
    IF n = <<>> \/ sg = 0 THEN FZero
    ELSE IF MagCmp(n, d, ex, DoubleOverflow, <<1>>, 277) >= 0 THEN FInf(sg)
    ELSE IF MagCmp(n, d, ex, DoubleUnderflow, <<1>>, -355) <= 0 THEN FZero
    ELSE IF ex >= 0 /\ ex <= 40 THEN FFin(sg, BigMulPow10(n, ex), d, 0)
    ELSE IF ex < 0 /\ ex >= -40 THEN FFin(sg, n, BigMulPow10(d, -ex), 0)
    ELSE FFin(sg, n, d, ex)

IntSign(i) == IF i < 0 THEN -1 ELSE IF i = 0 THEN 0 ELSE 1
IntAbs(i) == IF i < 0 THEN -i ELSE i

\* The float of the integer i, and of the decimal literal i * 10^-p.
FInt(i) == FRound(IntSign(i), BigOfInt(IntAbs(i)), <<1>>, 0)
FDec(i, p) == FRound(IntSign(i), BigOfInt(IntAbs(i)), <<1>>, -p)

FIsZero(a) == a.k = "fin" /\ a.s = 0

FNeg(a) == [a EXCEPT !.s = -a.s]
FAbs(a) == [a EXCEPT !.s = IF a.s < 0 THEN 1 ELSE a.s]

FMul(a, b) ==
    IF a.k = "zde" \/ b.k = "zde" THEN FZde
    ELSE IF a.k = "nan" \/ b.k = "nan" THEN FNaN
    ELSE IF a.k = "inf" \/ b.k = "inf"
         THEN (IF FIsZero(a) \/ FIsZero(b) THEN FNaN ELSE FInf(a.s * b.s))
    ELSE FRound(a.s * b.s, BigMul(a.n, b.n), BigMul(a.d, b.d), a.e + b.e)

\* Python raises ZeroDivisionError for a zero divisor, whatever the dividend.
FDiv(a, b) ==
    IF a.k = "zde" \/ b.k = "zde" THEN FZde
    ELSE IF FIsZero(b) THEN FZde
    ELSE IF a.k = "nan" \/ b.k = "nan" THEN FNaN
    ELSE IF a.k = "inf" THEN (IF b.k = "inf" THEN FNaN ELSE FInf(a.s * b.s))
    ELSE IF b.k = "inf" THEN FZero
    ELSE FRound(a.s * b.s, BigMul(a.n, b.d), BigMul(a.d, b.n), a.e - b.e)

\* The rank of a float that is finite or infinite: -2 .. 2
FRank(a) == IF a.k = "inf" THEN 2 * a.s ELSE a.s

\* -1, 0, 1 for two floats that are finite or infinite
FCmp(a, b) ==
    IF FRank(a) # FRank(b) THEN (IF FRank(a) < FRank(b) THEN -1 ELSE 1)
    ELSE IF a.k = "inf" \/ a.s = 0 THEN 0
    ELSE a.s * MagCmp(a.n, a.d, a.e, b.n, b.d, b.e)

\* Every comparison with nan is false.
FOrdered(a, b) == a.k \in {"fin", "inf"} /\ b.k \in {"fin", "inf"}
FLe(a, b) == FOrdered(a, b) /\ FCmp(a, b) <= 0
FLt(a, b) == FOrdered(a, b) /\ FCmp(a, b) < 0
FEq(a, b) == FOrdered(a, b) /\ FCmp(a, b) = 0

\* sa * x / dd + sb * y / dd, times 10^m, for x, y # 0
FAddAligned(sa, x, sb, y, dd, m) ==
    IF sa = sb THEN FRound(sa, BigAdd(x, y), dd, m)
    ELSE IF BigCmp(x, y) = 0 THEN FZero
    ELSE IF BigCmp(x, y) > 0 THEN FRound(sa, BigSub(x, y), dd, m)
    ELSE FRound(sb, BigSub(y, x), dd, m)

\* a + b for finite nonzero a and b, m the lesser of their exponents
FAddFin(a, b, m) ==
    FAddAligned(a.s, BigMulPow10(BigMul(a.n, b.d), a.e - m),
                b.s, BigMulPow10(BigMul(b.n, a.d), b.e - m),
                BigMul(a.d, b.d), m)

\* a + b.  Two finite terms more than 80 decimal orders apart give the larger
\* one, as in a double.
FAdd(a, b) ==
    IF a.k = "zde" \/ b.k = "zde" THEN FZde
    ELSE IF a.k = "nan" \/ b.k = "nan" THEN FNaN
    ELSE IF a.k = "inf" THEN (IF b.k = "inf" /\ b.s # a.s THEN FNaN ELSE a)
    ELSE IF b.k = "inf" THEN b
    ELSE IF a.s = 0 THEN b
    ELSE IF b.s = 0 THEN a
    ELSE IF a.e - b.e > 80 \/ b.e - a.e > 80
         THEN (IF MagCmp(a.n, a.d, a.e, b.n, b.d, b.e) >= 0 THEN a ELSE b)
    ELSE FAddFin(a, b, IF a.e < b.e THEN a.e ELSE b.e)

FSub(a, b) == FAdd(a, FNeg(b))

-----------------------------------------------------------------------------
(* float(text) and str(float).  A text is a sequence of one-character       *)
(* strings over digits, "+", "-", ".", " " and letters.                     *)

DigitChars == <<"0", "1", "2", "3", "4", "5", "6", "7", "8", "9">>
IsDigit(c) == \E i \in 1..10 : DigitChars[i] = c
DigitVal(c) == (CHOOSE i \in 1..10 : DigitChars[i] = c) - 1
AllDigits(t) == \A i \in 1..Len(t) : IsDigit(t[i])

Lower(c) ==
    CASE c = "I" -> "i" [] c = "N" -> "n" [] c = "F" -> "f" [] c = "A" -> "a"
      [] c = "T" -> "t" [] c = "Y" -> "y" [] c = "E" -> "e" [] OTHER -> c

LowerAll(t) == [i \in 1..Len(t) |-> Lower(t[i])]

RECURSIVE LStrip(_)
LStrip(t) == IF t # <<>> /\ t[1] = " " THEN LStrip(Tail(t)) ELSE t

RECURSIVE RStrip(_)
RStrip(t) ==
    IF t # <<>> /\ t[Len(t)] = " " THEN RStrip(SubSeq(t, 1, Len(t) - 1)) ELSE t

\* str.strip()
Strip(t) == RStrip(LStrip(t))

\* The natural a sequence of digits writes, most significant first.
RECURSIVE BigOfDigits(_, _)
BigOfDigits(t, acc) ==
    IF t = <<>> THEN acc
    ELSE BigOfDigits(Tail(t),
                     BigAdd(BigMulLimb(acc, 10, 0), BigOfInt(DigitVal(t[1]))))

\* The same as an integer; an exponent of more than six digits is as good as
\* 999999 (the value is then 0 or inf whatever the mantissa).
RECURSIVE IntOfDigits(_, _)
IntOfDigits(t, acc) ==
    IF t = <<>> THEN acc
    ELSE IF acc > 99999 THEN 999999
    ELSE IntOfDigits(Tail(t), acc * 10 + DigitVal(t[1]))

\* The first index of character c in t, or 0.
IndexOf(t, c) ==
    IF \E i \in 1..Len(t) : t[i] = c
    THEN CHOOSE i \in 1..Len(t) : t[i] = c /\ \A j \in 1..(i - 1) : t[j] # c
    ELSE 0

\* t before and after index i, all of t and nothing when i = 0
Before(t, i) == IF i = 0 THEN t ELSE SubSeq(t, 1, i - 1)
After(t, i) == IF i = 0 THEN <<>> ELSE SubSeq(t, i + 1, Len(t))

HasSign(t) == t # <<>> /\ t[1] \in {"+", "-"}
Unsigned(t) == IF HasSign(t) THEN Tail(t) ELSE t
SignOf(t) == IF t # <<>> /\ t[1] = "-" THEN -1 ELSE 1

\* sg * ip.fp * 10^expo: integer digits, fraction digits, and the exponent
\* part (the text after "e", if hasExp).
ParseParts(sg, ip, fp, hasExp, expo) ==
    IF /\ AllDigits(ip) /\ AllDigits(fp) /\ Len(ip) + Len(fp) >= 1
       /\ hasExp => (Unsigned(expo) # <<>> /\ AllDigits(Unsigned(expo)))
    THEN FRound(sg, BigOfDigits(ip \o fp, <<>>), <<1>>,
                SignOf(expo) * IntOfDigits(Unsigned(expo), 0) - Len(fp))
    ELSE FValueError

\* mant [e expo]
ParseMantissa(sg, mant, hasExp, expo) ==
    ParseParts(sg, Before(mant, IndexOf(mant, ".")), After(mant, IndexOf(mant, ".")),
               hasExp, expo)

\* digits [. digits] [e [sign] digits], with at least one digit in the
\* mantissa; anything else is a ValueError.
ParseNumber(sg, t) ==
    ParseMantissa(sg, Before(t, IndexOf(t, "e")), IndexOf(t, "e") # 0,
                  After(t, IndexOf(t, "e")))

\* [sign] (inf | infinity | nan | number), letters in either case
ParseSigned(sg, body) ==
    IF body = <<"i", "n", "f">> \/ body = <<"i", "n", "f", "i", "n", "i", "t", "y">>
    THEN FInf(sg)
    ELSE IF body = <<"n", "a", "n">> THEN FNaN
    ELSE ParseNumber(sg, body)

\* float(text)
ParseFloat(text) == ParseSigned(SignOf(Strip(text)), LowerAll(Unsigned(Strip(text))))

\* The decimal digits of a natural, four to a limb, most significant first.
RECURSIVE DigitsOfBig(_)
DigitsOfBig(a) ==
    IF a = <<>> THEN <<>>
    ELSE <<DigitChars[(a[Len(a)] \div 1000) + 1],
           DigitChars[((a[Len(a)] \div 100) % 10) + 1],
           DigitChars[((a[Len(a)] \div 10) % 10) + 1],
           DigitChars[(a[Len(a)] % 10) + 1]>>
             \o DigitsOfBig(SubSeq(a, 1, Len(a) - 1))

RECURSIVE DropZeros(_)
DropZeros(t) == IF Len(t) > 1 /\ t[1] = "0" THEN DropZeros(Tail(t)) ELSE t

RECURSIVE DropTrailingZeros(_)
DropTrailingZeros(t) ==
    IF Len(t) > 1 /\ t[Len(t)] = "0" THEN DropTrailingZeros(SubSeq(t, 1, Len(t) - 1))
    ELSE t

\* The digits nd of n, padded to more than p digits
PadDigits(nd, p) ==
    IF Len(nd) <= p THEN [i \in 1..(p + 1 - Len(nd)) |-> "0"] \o nd ELSE nd

\* digits with a point before the last p of them, p = 0 giving ".0"
PointDigits(sg, digits, p) ==
    (IF sg < 0 THEN <<"-">> ELSE <<>>)
        \o SubSeq(digits, 1, Len(digits) - p) \o <<".">>
        \o (IF p = 0 THEN <<"0">>
            ELSE DropTrailingZeros(SubSeq(digits, Len(digits) - p + 1, Len(digits))))

\* n / 10^p as a decimal
StrDecimal(sg, nd, p) == PointDigits(sg, PadDigits(nd, p), p)

\* str(v) for a finite float n / 10^p written without an exponent (as repr
\* does between 1e-4 and 1e16): the integer digits, ".", and the fraction
\* digits without trailing zeros, at least one.  (The program calls str on
\* freq0 only.)
StrFloat(v) ==
    StrDecimal(v.s, IF v.s = 0 THEN <<"0">> ELSE DropZeros(DigitsOfBig(v.n)),
               Len(DropZeros(DigitsOfBig(v.d))) - 1)

-----------------------------------------------------------------------------
(* The numeric core.                                                        *)

C == 299792458

wavelength_m(freq_mhz) == FDiv(FInt(C), FMul(freq_mhz, FDec(1, -6)))

\* A sine is a sign s and an angle a in turns, 0 < a <= 1/4, whose sine is the
\* magnitude: sin is increasing on the first quarter turn, so two sines
\* compare as their signed angles do.  0 is SinZero, 1 is SinOne.
SinZero == [s |-> 0, a |-> FZero]
SinOne == [s |-> 1, a |-> FDec(25, 2)]
SinNaN == [s |-> 0, a |-> FNaN]
SinOf(sg, a) == IF FIsZero(a) THEN SinZero ELSE [s |-> sg, a |-> a]

\* u - floor(u) for u >= 0
RECURSIVE FracTurn(_)
FracTurn(u) == IF FLt(u, FInt(1)) THEN u ELSE FracTurn(FSub(u, FInt(1)))

\* sg * sin(2*pi*f) for 0 <= f < 1, by quadrants
SinQuadrant(sg, f) ==
    IF FLe(f, FDec(25, 2)) THEN SinOf(sg, f)
    ELSE IF FLe(f, FDec(5, 1)) THEN SinOf(sg, FSub(FDec(5, 1), f))
    ELSE IF FLe(f, FDec(75, 2)) THEN SinOf(-sg, FSub(f, FDec(5, 1)))
    ELSE SinOf(-sg, FSub(FInt(1), f))

\* np.sin(2*np.pi * t), exact
sin_2pi(t) == IF t.k # "fin" THEN SinNaN ELSE SinQuadrant(t.s, FracTurn(FAbs(t)))

SinIsNaN(v) == v.a.k = "nan"
SinEq(v, w) == ~SinIsNaN(v) /\ ~SinIsNaN(w) /\ v.s = w.s /\ (v.s = 0 \/ FEq(v.a, w.a))
SinLe(v, w) ==
    /\ ~SinIsNaN(v) /\ ~SinIsNaN(w)
    /\ \/ v.s < w.s
       \/ v.s = w.s /\ (v.s = 0 \/ (v.s = 1 /\ FLe(v.a, w.a)) \/ (v.s = -1 /\ FLe(w.a, v.a)))

\* Lines 17-23 with the mask taken on x instead of |x|
current_fill_mask_no_abs(x, half) ==
    [i \in 1..Len(x) |->
        IF FLe(x[i], half) THEN sin_2pi(FSub(half, FAbs(x[i]))) ELSE SinZero]

\* Lines 17-23 with the sine taken on half - x instead of half - |x|
current_fill_arg_no_abs(x, half) ==
    [i \in 1..Len(x) |->
        IF FLe(FAbs(x[i]), half) THEN sin_2pi(FSub(half, x[i])) ELSE SinZero]

\* Lines 17-23 with the sine taken on |x| instead of half - |x|
current_fill_from_center(x, half) ==
    [i \in 1..Len(x) |->
        IF FLe(FAbs(x[i]), half) THEN sin_2pi(FAbs(x[i])) ELSE SinZero]

\* Lines 17-23: I is 0 everywhere, then the sine where inside holds.
current_fill(x, half) ==
    [i \in 1..Len(x) |->
        IF FLe(FAbs(x[i]), half) THEN sin_2pi(FSub(half, FAbs(x[i]))) ELSE SinZero]

\* current_distribution with half = L_elec_lambda, the division forgotten
current_distribution_no_halving(x, L_elec_lambda) == current_fill(x, L_elec_lambda)

current_distribution(x, L_elec_lambda) ==
    current_fill(x, FDiv(L_elec_lambda, FDec(20, 1)))

\* Line 28
lengths_result(lam, L_total) == <<lam, L_total, FDiv(L_total, FInt(2))>>

\* lengths with the velocity factor left out of L_total
lengths_no_vf(freq_mhz, vf, mult) ==
    lengths_result(wavelength_m(freq_mhz), FMul(mult, wavelength_m(freq_mhz)))

\* Line 27
lengths_total(lam, vf, mult) == lengths_result(lam, FMul(FMul(mult, lam), vf))

lengths(freq_mhz, vf, mult) == lengths_total(wavelength_m(freq_mhz), vf, mult)

\* y[i] = start + (i - 1) * step, the last one stop itself
linspace_fill(start, stop, num, step) ==
    [i \in 1..num |-> IF i = num THEN stop ELSE FAdd(start, FMul(FInt(i - 1), step))]

\* np.linspace(start, stop, num) for num >= 2
linspace(start, stop, num) ==
    linspace_fill(start, stop, num, FDiv(FSub(stop, start), FInt(num - 1)))

\* The number of samples of the plotted axis: 2000 in the program.
NumSamples == 13

x == linspace(FDec(-15, 1), FDec(15, 1), NumSamples)

freq0 == FDec(1000, 1)
vf0 == FDec(95, 2)
mult0 == FDec(5, 1)

I0 == current_distribution(x, mult0)

-----------------------------------------------------------------------------
(* The widgets and their callbacks.  A slider holds valmin + k * valstep;   *)
(* the status text is kept as the tuple of the values its f-string formats, *)
(* <<freq_mhz, lam, L_total, mult, vf, L_arm>>.                             *)

s_vf_valmin == FDec(80, 2)
s_vf_valstep == FDec(5, 3)
s_mult_valmin == FDec(25, 2)
s_mult_valstep == FDec(1, 2)

\* The slider positions and the frequency texts the user is given.
VfSteps == {0, 20, 40}
MultSteps == {0, 25, 75, 175}
FreqTexts ==
    { <<"2", "7">>, <<" ", "5", "0", " ">>, <<"a", "b", "c">>, <<>>, <<"0">>,
      <<"-", "5">>, <<"n", "a", "n">>, <<"i", "n", "f">>,
      <<"1", "e", "-", "4", "0", "0">>, <<"1", "e", "-", "3", "2", "0">> }

slider_val(valmin, valstep, k) == FAdd(valmin, FMul(FInt(k), valstep))

\* Lines 80-83 without the test freq_mhz <= 0
checked_freq_no_sign_test(parsed) == IF parsed.k = "verr" THEN freq0 ELSE parsed

\* Lines 80-83: the fallback on a ValueError, raised by float or by line 81.
checked_freq(parsed) ==
    IF parsed.k = "verr" THEN freq0
    ELSE IF FLe(parsed, FZero) THEN freq0
    ELSE parsed

\* Lines 78-83: the frequency update computes with.
read_freq(text) == checked_freq(ParseFloat(Strip(text)))

\* A state of the widgets, with the exception the handler ended with.
Shown(text, vf, mult, I, st, ex) ==
    [tb_text |-> text, s_vf |-> vf, s_mult |-> mult, ydata |-> I, status |-> st,
     err |-> ex]

\* Lines 95-100: the values the f-string formats, ls being what lengths returned.
StatusOf(freq_mhz, vf, mult, ls) == <<freq_mhz, ls[1], ls[2], mult, vf, ls[3]>>

\* Lines 93-100.  A ZeroDivisionError in lengths leaves the status as it was.
update_status(w, freq_mhz, I, ls) ==
    IF ls[1].k = "zde"
    THEN Shown(w.tb_text, w.s_vf, w.s_mult, I, w.status, "ZeroDivisionError")
    ELSE Shown(w.tb_text, w.s_vf, w.s_mult, I,
               StatusOf(freq_mhz, w.s_vf, w.s_mult, ls), "none")

\* Lines 85-93
update_curve(w, freq_mhz) ==
    update_status(w, freq_mhz, current_distribution(x, w.s_mult),
                  lengths(freq_mhz, w.s_vf, w.s_mult))

\* update that writes the frequency it computed with back into the text box
update_writes_text(w) ==
    update_curve([w EXCEPT !.tb_text = IF ParseFloat(Strip(w.tb_text)) = read_freq(w.tb_text)
                                       THEN w.tb_text ELSE StrFloat(read_freq(w.tb_text))],
                 read_freq(w.tb_text))

\* update(): w is the state of the widgets before, the result the state after.
update(w) == update_curve(w, read_freq(w.tb_text))

widgets == Shown(tb_text, s_vf, s_mult, ydata, status, err)

\* The text holds a positive finite frequency.
ValidFreqText(text) ==
    ParseFloat(Strip(text)).k = "fin" /\ ParseFloat(Strip(text)).s > 0

\* The state a handler leaves, r being what its last update() returned.
Display(r, op, arg, moved) ==
    /\ tb_text' = r.tb_text
    /\ s_vf' = r.s_vf
    /\ s_mult' = r.s_mult
    /\ ydata' = r.ydata
    /\ status' = r.status
    /\ err' = r.err
    /\ last_event' = [op |-> op, arg |-> arg, moved |-> moved]
    /\ last_valid' = IF ValidFreqText(r.tb_text)
                     THEN ParseFloat(Strip(r.tb_text)) ELSE last_valid

\* Lines 30-74: the figure before the first update().
UiStart ==
    /\ pc = "start"
    /\ tb_text = StrFloat(freq0)
    /\ s_vf = vf0
    /\ s_mult = mult0
    /\ ydata = I0
    /\ status = <<>>
    /\ err = "none"
    /\ last_event = [op |-> "none", arg |-> <<>>, moved |-> {}]
    /\ last_valid = freq0

\* Line 122
initial_render ==
    /\ pc = "start"
    /\ pc' = "idle"
    /\ Display(update(widgets), "init", <<>>, {})
    /\ UNCHANGED <<cdVars, lnVars>>

\* Line 116: the VF slider moves to step k and calls update(val).
on_vf_changed(k) ==
    /\ pc = "idle"
    /\ pc' = pc
    /\ Display(update([widgets EXCEPT !.s_vf = slider_val(s_vf_valmin, s_vf_valstep, k)]),
               "vf", <<>>, {})
    /\ UNCHANGED <<cdVars, lnVars>>

\* s_mult.on_changed(update) left out: the slider moves, nothing is redrawn
on_mult_changed_unwired(k) ==
    /\ pc = "idle"
    /\ pc' = pc
    /\ Display([widgets EXCEPT !.s_mult = slider_val(s_mult_valmin, s_mult_valstep, k)],
               "mult", <<>>, {})
    /\ UNCHANGED <<cdVars, lnVars>>

\* Line 117: the length slider moves to step k and calls update(val).
on_mult_changed(k) ==
    /\ pc = "idle"
    /\ pc' = pc
    /\ Display(update([widgets EXCEPT
                           !.s_mult = slider_val(s_mult_valmin, s_mult_valstep, k)]),
               "mult", <<>>, {})
    /\ UNCHANGED <<cdVars, lnVars>>

\* Lines 106-107 and 118: text is submitted in the box.
submit_freq(text) ==
    /\ pc = "idle"
    /\ pc' = pc
    /\ Display(update([widgets EXCEPT !.tb_text = text]), "submit", text, {})
    /\ UNCHANGED <<cdVars, lnVars>>

\* The parameters that are away from their defaults.
Moved ==
    (IF tb_text # StrFloat(freq0) THEN {"freq"} ELSE {})
        \cup (IF ~FEq(s_vf, vf0) THEN {"vf"} ELSE {})
        \cup (IF ~FEq(s_mult, mult0) THEN {"mult"} ELSE {})

\* Line 110: set_val notifies on_submit, which runs update().
reset_text(w) == update([w EXCEPT !.tb_text = StrFloat(freq0)])
\* Line 111: Slider.reset sets valinit and notifies on_changed.
reset_vf(w) == update([w EXCEPT !.s_vf = vf0])
\* Line 112
reset_mult(w) == update([w EXCEPT !.s_mult = mult0])

\* reset without s_mult.reset()
reset_keeps_mult ==
    /\ pc = "idle"
    /\ pc' = pc
    /\ Display(update(reset_vf(reset_text(widgets))), "reset", <<>>, Moved)
    /\ UNCHANGED <<cdVars, lnVars>>

\* Lines 109-113 and 119
reset ==
    /\ pc = "idle"
    /\ pc' = pc
    /\ Display(update(reset_mult(reset_vf(reset_text(widgets)))), "reset", <<>>, Moved)
    /\ UNCHANGED <<cdVars, lnVars>>

-----------------------------------------------------------------------------
(* current_distribution and lengths on their own, on inputs beyond those    *)
(* the widgets deliver.                                                     *)

\* The longest position sequence tried.
MaxPositions == 2

CdPositions ==
    { FZero, FDec(125, 3), FDec(-125, 3), FDec(25, 2), FDec(-25, 2),
      FDec(5, 1), FDec(-5, 1), FInt(1), FInt(-1) }
CdLengths == { FZero, FDec(25, 2), FDec(5, 1), FInt(1), FInt(2), FDec(-5, 1) }

LnFreqs == { FInt(100), FInt(27), FDec(1455, 1), FDec(5, 1), FInt(7), FDec(1, 320) }
LnVfs == { FDec(8, 1), FDec(95, 2), FInt(1), FDec(66, 2), FDec(12, 1) }
LnMults == { FDec(25, 2), FDec(5, 1), FInt(1), FInt(2), FInt(3) }

CdIdle == cd_x = <<>> /\ cd_L = FZero /\ cd_I = <<>> /\ cd_pc = "ret"
LnIdle == ln_in = <<freq0, vf0, mult0>> /\ ln_out = <<>> /\ ln_pc = "ret"

call_current_distribution ==
    /\ cd_pc = "call"
    /\ cd_I' = current_distribution(cd_x, cd_L)
    /\ cd_pc' = "ret"
    /\ UNCHANGED <<cd_x, cd_L, uiVars, lnVars>>

call_lengths ==
    /\ ln_pc = "call"
    /\ ln_out' = lengths(ln_in[1], ln_in[2], ln_in[3])
    /\ ln_pc' = "ret"
    /\ UNCHANGED <<ln_in, uiVars, cdVars>>

-----------------------------------------------------------------------------
Init == UiStart /\ CdIdle /\ LnIdle

Next ==
    \/ initial_render
    \/ \E k \in VfSteps : on_vf_changed(k)
    \/ \E k \in MultSteps : on_mult_changed(k)
    \/ \E text \in FreqTexts : submit_freq(text)
    \/ reset

Spec == Init /\ [][Next]_vars

InitCD ==
    /\ UiStart /\ LnIdle
    /\ cd_x \in UNION { [1..n -> CdPositions] : n \in 0..MaxPositions }
    /\ cd_L \in CdLengths
    /\ cd_I = <<>>
    /\ cd_pc = "call"

NextCD == call_current_distribution

SpecCD == InitCD /\ [][NextCD]_vars

InitLen ==
    /\ UiStart /\ CdIdle
    /\ ln_in \in LnFreqs \X LnVfs \X LnMults
    /\ ln_out = <<>>
    /\ ln_pc = "call"

NextLen == call_lengths

SpecLen == InitLen /\ [][NextLen]_vars

-----------------------------------------------------------------------------
(* Properties.                                                              *)

\* The text is non-numeric (float raises ValueError), zero or negative.
InvalidFreqText(text) ==
    \/ ParseFloat(Strip(text)).k = "verr"
    \/ FLe(ParseFloat(Strip(text)), FZero)

\* The status after an update() that computed with freq_mhz, vf and mult.
Shows(freq_mhz, vf, mult) == StatusOf(freq_mhz, vf, mult, lengths(freq_mhz, vf, mult))

\* C1: whenever the text in the frequency box is non-numeric, zero or
\* negative, update() has computed with the default freq0 = 100.0 and has
\* raised nothing, whatever frequencies were submitted before.
C1_InvalidTextFallsBackToFreq0 ==
    (pc = "idle" /\ InvalidFreqText(tb_text))
        => /\ err = "none"
           /\ Len(status) = 6
           /\ FEq(status[1], freq0)
           /\ FEq(FMul(FMul(status[2], freq0), FDec(1, -6)), FInt(C))

\* C1 witness: an invalid text was submitted after a valid frequency other
\* than 100.0 had been in use, and the status shows 100.0, not that frequency.
C1_Witness ==
    /\ pc = "idle"
    /\ last_event.op = "submit"
    /\ InvalidFreqText(tb_text)
    /\ ~FEq(last_valid, freq0)
    /\ FEq(status[1], freq0)
    /\ err = "none"

\* C2: when reset() has returned, the text box holds "100.0", the sliders
\* are at 0.95 and 0.5, and the curve and the status are those computed from
\* (freq0, vf0, mult0).
C2_ResetRestoresDefaults ==
    (pc = "idle" /\ last_event.op = "reset")
        => /\ tb_text = <<"1", "0", "0", ".", "0">>
           /\ FEq(read_freq(tb_text), FInt(100))
           /\ FEq(s_vf, FDec(95, 2))
           /\ FEq(s_mult, FDec(5, 1))
           /\ ydata = current_distribution(x, mult0)
           /\ status = Shows(freq0, vf0, mult0)
           /\ err = "none"

\* C2 witness: reset() has returned and all three parameters were away from
\* their defaults when it was clicked.
C2_Witness ==
    /\ pc = "idle"
    /\ last_event.op = "reset"
    /\ last_event.moved = {"freq", "vf", "mult"}
    /\ status = Shows(freq0, vf0, mult0)

\* Element i of current_distribution(cd_x, cd_L) as the specification states
\* it: 0 when |x[i]| > L/2, sin(2*pi*(L/2 - |x[i]|)) otherwise.
ProfileAt(xi, L) ==
    IF FLt(FDiv(L, FInt(2)), FAbs(xi))
    THEN SinZero
    ELSE sin_2pi(FSub(FDiv(L, FInt(2)), FAbs(xi)))

\* C3: the result has the length of the positions, element i is 0 when
\* |x[i]| > L/2 and sin(2*pi*(L/2 - |x[i]|)) otherwise, and it is 0 at the
\* ends |x[i]| = L/2.
C3_ProfileIsPiecewiseSine ==
    cd_pc = "ret"
        => /\ Len(cd_I) = Len(cd_x)
           /\ \A i \in 1..Len(cd_x) :
                /\ SinEq(cd_I[i], ProfileAt(cd_x[i], cd_L))
                /\ FLt(FDiv(cd_L, FInt(2)), FAbs(cd_x[i])) => SinEq(cd_I[i], SinZero)
                /\ FEq(FAbs(cd_x[i]), FDiv(cd_L, FInt(2))) => SinEq(cd_I[i], SinZero)

\* C3 witness: one call returned a position outside the structure, and one
\* strictly inside it with a non-zero current.
C3_Witness ==
    /\ cd_pc = "ret"
    /\ Len(cd_x) = 2
    /\ FLt(FDiv(cd_L, FInt(2)), FAbs(cd_x[1]))
    /\ FLt(FAbs(cd_x[2]), FDiv(cd_L, FInt(2)))
    /\ cd_x[2].s < 0
    /\ ~SinEq(cd_I[2], SinZero)
    /\ SinEq(cd_I[1], SinZero)

\* C4: the values computed at x and at -x are equal, at the boundary
\* |x| = L/2 too.
C4_ProfileIsEven ==
    cd_pc = "ret"
        => \A i, j \in 1..Len(cd_x) :
              FEq(cd_x[i], FNeg(cd_x[j])) => SinEq(cd_I[i], cd_I[j])

\* C4 witness: a call on <<x, -x>> with x # 0 inside the structure, where the
\* current is not zero.
C4_Witness ==
    /\ cd_pc = "ret"
    /\ Len(cd_x) = 2
    /\ cd_x[1].s > 0
    /\ FEq(cd_x[1], FNeg(cd_x[2]))
    /\ ~SinEq(cd_I[1], SinZero)
    /\ SinEq(cd_I[1], cd_I[2])

C6_HalfWaveSingleLobe ==
    (cd_pc = "ret" /\ FEq(cd_L, FDec(5, 1)))
        => \A i \in 1..Len(cd_x) :
              /\ FIsZero(cd_x[i]) => SinEq(cd_I[i], SinOne)
              /\ SinLe(cd_I[i], SinOne)
              /\ SinLe(SinZero, cd_I[i])
              /\ FLe(FDec(25, 2), FAbs(cd_x[i])) => SinEq(cd_I[i], SinZero)

\* C6 witness: a call with L = 0.5 on the centre and on a position strictly
\* between the centre and the end, where the current lies strictly between
\* 0 and 1.
C6_Witness ==
    /\ cd_pc = "ret"
    /\ FEq(cd_L, FDec(5, 1))
    /\ Len(cd_x) = 2
    /\ FIsZero(cd_x[1])
    /\ SinEq(cd_I[1], SinOne)
    /\ ~SinEq(cd_I[2], SinZero)
    /\ ~SinEq(cd_I[2], SinOne)

\* C7, as stated: whatever text is in the frequency box, the wavelength the
\* status shows is positive and finite, and times the frequency used, times
\* 1e6, it is 299792458.
C7_WavelengthPositiveFinite ==
    pc = "idle"
        => /\ Len(status) = 6
           /\ status[2].k = "fin"
           /\ status[2].s > 0
           /\ FEq(FMul(FMul(status[2], status[1]), FDec(1, -6)), FInt(C))

\* C7 witness: the text "nan" was submitted and the status shows a wavelength
\* that is not a number.
C7_Witness ==
    /\ pc = "idle"
    /\ tb_text = <<"n", "a", "n">>
    /\ status[1].k = "nan"
    /\ status[2].k = "nan"

\* C8: lengths returns (lam, L_total, L_arm) with lam = wavelength_m(freq),
\* L_total = mult * lam * vf and L_arm = L_total / 2.
C8_LengthsRelations ==
    ln_pc = "ret"
        => /\ Len(ln_out) = 3
           /\ ln_out[1] = wavelength_m(ln_in[1])
           /\ FEq(FMul(FMul(ln_out[1], ln_in[1]), FDec(1, -6)), FInt(C))
                 \/ ln_out[1].k # "fin"
           /\ FEq(ln_out[2], FMul(FMul(ln_in[3], ln_out[1]), ln_in[2]))
           /\ FEq(FMul(ln_out[3], FInt(2)), ln_out[2])
           /\ FEq(ln_out[3], FDiv(ln_out[2], FInt(2)))

\* C8 witness: a call returned for a velocity factor and a multiplier other
\* than 1, with a finite wavelength.
C8_Witness ==
    /\ ln_pc = "ret"
    /\ ~FEq(ln_in[2], FInt(1))
    /\ ~FEq(ln_in[3], FInt(1))
    /\ ln_out[1].k = "fin"
    /\ FLt(ln_out[3], ln_out[2])

\* C9: after the initial render and after every event the curve is
\* current_distribution(x, s_mult) and the status shows
\* lengths(frequency used, s_vf, s_mult).
C9_DisplayIsFresh ==
    pc = "idle"
        => /\ ydata = current_distribution(x, s_mult)
           /\ status = Shows(read_freq(tb_text), s_vf, s_mult)

\* C9 witness: the length slider has just moved away from 0.5 while the
\* other two parameters are away from their defaults, and the display
\* follows.
C9_Witness ==
    /\ pc = "idle"
    /\ last_event.op = "mult"
    /\ ~FEq(s_mult, mult0)
    /\ ~FEq(s_vf, vf0)
    /\ ~FEq(read_freq(tb_text), freq0)
    /\ ydata # I0
    /\ status = Shows(read_freq(tb_text), s_vf, s_mult)

\* A handler step that leaves a slider event behind it.
SliderStep == pc = "idle" /\ last_event'.op \in {"vf", "mult"}

\* C10: update() leaves the text and both slider values as they are; so an
\* invalid text stays in the box while the status shows 100.0, through
\* every later slider change.
C10_UpdateWritesNoParameter ==
    /\ [](/\ update(widgets).tb_text = tb_text
          /\ update(widgets).s_vf = s_vf
          /\ update(widgets).s_mult = s_mult)
    /\ [][last_event'.op = "submit" => tb_text' = last_event'.arg]_vars
    /\ [][SliderStep => tb_text' = tb_text]_vars
    /\ [][(SliderStep /\ InvalidFreqText(tb_text)) => FEq(status'[1], freq0)]_vars

\* C10 witness: a slider has moved while the box holds an invalid text, the
\* text is still there and the status shows 100.0.
C10_Witness ==
    /\ pc = "idle"
    /\ last_event.op \in {"vf", "mult"}
    /\ InvalidFreqText(tb_text)
    /\ ParseFloat(Strip(tb_text)).k = "verr"
    /\ FEq(status[1], freq0)

====
